---- MODULE Spec2Model ----
(***************************************************************************)
(* The TaHoma reconciliation engine: TahomaDataUpdateCoordinator          *)
(* (coordinator.py) and the manual refresh path handle_refresh_states      *)
(* (__init__.py).                                                          *)
(*                                                                         *)
(* The coordinator's coroutines run on one asyncio event loop: a task runs *)
(* its synchronous code without interruption and other tasks run only      *)
(* while it is suspended in an await.  Each action below is one stretch of *)
(* a coroutine between two awaits, or one iteration of the event loop of   *)
(* _async_update_data.  A task whose pc is in SyncPcs holds the event loop.*)
(***************************************************************************)
EXTENDS Integers, Sequences, FiniteSets, TLC

(***************************************************************************)
(* Bounds and inputs                                                       *)
(***************************************************************************)
\* longest event batch one fetch_events call returns
MaxBatch == 2
\* most refreshes (polls and manual refreshes) started in one run
MaxCycles == 3

DeviceIds == {"d1", "d2"}
ExecIds == {"E1", "E2"}
StateNames == {"core:ClosureState", "core:NameState"}

\* the coroutines that run a reconciliation cycle: the coordinator's scheduled
\* poll (and the first refresh of async_setup_entry) and handle_refresh_states
Tasks == {"poll", "manual"}

FastInterval == 1
DEFAULT_UPDATE_INTERVAL == 30

(***************************************************************************)
(* pyhoma enums                                                            *)
(***************************************************************************)
DEVICE_AVAILABLE == "DeviceAvailableEvent"
DEVICE_UNAVAILABLE == "DeviceUnavailableEvent"
DEVICE_DISABLED == "DeviceDisabledEvent"
DEVICE_CREATED == "DeviceCreatedEvent"
DEVICE_UPDATED == "DeviceUpdatedEvent"
DEVICE_REMOVED == "DeviceRemovedEvent"
DEVICE_STATE_CHANGED == "DeviceStateChangedEvent"
EXECUTION_REGISTERED == "ExecutionRegisteredEvent"
EXECUTION_STATE_CHANGED == "ExecutionStateChangedEvent"
REFRESH_ALL_DEVICES_STATES_COMPLETED == "RefreshAllDevicesStatesCompletedEvent"
GATEWAY_ALIVE == "GatewayAliveEvent"

COMPLETED == "COMPLETED"
FAILED == "FAILED"
IN_PROGRESS == "IN_PROGRESS"

\* pyhoma DataType members used by the gateway; DataType_JSON_ARRAY stands for the
\* members that TYPES has no entry for
DataType_NONE == "NONE"
DataType_INTEGER == "INTEGER"
DataType_DATE == "DATE"
DataType_STRING == "STRING"
DataType_FLOAT == "FLOAT"
DataType_BOOLEAN == "BOOLEAN"
DataType_JSON_ARRAY == "JSON_ARRAY"

(***************************************************************************)
(* Python values.  A raw wire value is a str, kept as its sequence of      *)
(* characters; every value is a record of the same shape so that values of *)
(* different Python types compare unequal.                                 *)
(***************************************************************************)
PyStr(cs) == [py |-> "str", n |-> 0, s |-> cs]
PyInt(k) == [py |-> "int", n |-> k, s |-> <<>>]
PyBool(b) == [py |-> "bool", n |-> IF b THEN 1 ELSE 0, s |-> <<>>]
\* a float is kept as ten times its value (one decimal digit)
PyFloat(tenths) == [py |-> "float", n |-> tenths, s |-> <<>>]

Digits == {"0", "1", "2", "3", "4", "5", "6", "7", "8", "9"}

DigitValue(c) ==
    CASE c = "0" -> 0 [] c = "1" -> 1 [] c = "2" -> 2 [] c = "3" -> 3
      [] c = "4" -> 4 [] c = "5" -> 5 [] c = "6" -> 6 [] c = "7" -> 7
      [] c = "8" -> 8 [] c = "9" -> 9

RECURSIVE DecimalValue(_)
DecimalValue(cs) ==
    IF cs = <<>> THEN 0
    ELSE 10 * DecimalValue(SubSeq(cs, 1, Len(cs) - 1)) + DigitValue(cs[Len(cs)])

AllDigits(cs) == cs # <<>> /\ \A i \in 1..Len(cs) : cs[i] \in Digits

\* the characters after an optional sign
Unsigned(cs) == IF cs # <<>> /\ cs[1] \in {"-", "+"} THEN Tail(cs) ELSE cs
Sign(cs) == IF cs # <<>> /\ cs[1] = "-" THEN -1 ELSE 1

\* int(str): an optional sign and decimal digits, anything else is a ValueError
IntParses(cs) == AllDigits(Unsigned(cs))
IntOf(cs) == Sign(cs) * DecimalValue(Unsigned(cs))

\* float(str) on the literals d+ and d+.d: anything else is a ValueError
DotAt(cs) == {i \in 1..Len(cs) : cs[i] = "."}
FloatParses(cs) ==
    LET u == Unsigned(cs) IN
    \/ AllDigits(u)
    \/ /\ Cardinality(DotAt(u)) = 1
       /\ Len(u) >= 3
       /\ u[Len(u) - 1] = "."
       /\ AllDigits(SubSeq(u, 1, Len(u) - 2))
       /\ u[Len(u)] \in Digits
FloatOf(cs) ==
    LET u == Unsigned(cs) IN
    IF AllDigits(u) THEN Sign(cs) * 10 * DecimalValue(u)
    ELSE Sign(cs) * (10 * DecimalValue(SubSeq(u, 1, Len(u) - 2)) + DigitValue(u[Len(u)]))

\* TYPES: the DataType members that have a caster
TYPES == {DataType_NONE, DataType_INTEGER, DataType_DATE, DataType_STRING, DataType_FLOAT, DataType_BOOLEAN}

\* caster(state.value) raises: ValueError from int() and float(), TypeError
\* from calling the None that TYPES.get returns for a member it does not hold
CastRaises(state) ==
    /\ state.type # DataType_NONE
    /\ \/ state.type \notin TYPES
       \/ state.type \in {DataType_INTEGER, DataType_DATE} /\ ~IntParses(state.value.s)
       \/ state.type = DataType_FLOAT /\ ~FloatParses(state.value.s)

\* _get_state: the raw str value cast to the declared type
GetState_Raw(state) == state.value

GetState(state) ==
    CASE state.type = DataType_NONE -> state.value
      [] state.type \in {DataType_INTEGER, DataType_DATE} -> PyInt(IntOf(state.value.s))
      [] state.type = DataType_STRING -> state.value
      [] state.type = DataType_FLOAT -> PyFloat(FloatOf(state.value.s))
      [] state.type = DataType_BOOLEAN -> PyBool(state.value.s # <<>>)

(***************************************************************************)
(* pyhoma models                                                           *)
(***************************************************************************)
\* State(name, type, value): value is the raw wire value until it is cast
State(name, type, raw) == [name |-> name, type |-> type, value |-> PyStr(raw)]

\* Event: the fields _async_update_data reads
Event(name, deviceurl, exec_id, new_state, device_states) ==
    [name |-> name, deviceurl |-> deviceurl, exec_id |-> exec_id,
     new_state |-> new_state, device_states |-> device_states]

DeviceEvent(name, d) == Event(name, d, "", "", <<>>)
ExecutionEvent(name, e, new_state) == Event(name, "", e, new_state, <<>>)

\* Device: the fields the coordinator reads and writes; states maps a state
\* name to the State stored under it
Device(available) == [available |-> available, states |-> <<>>]

\* the result of client.get_devices as the dict {d.deviceurl: d for d in ...}:
\* any set of devices, each freshly built and available
Snapshots ==
    {[d \in S |-> Device(TRUE)] : S \in SUBSET DeviceIds}

(***************************************************************************)
(* The events the gateway delivers                                         *)
(***************************************************************************)
ClosureState(type, raw) == State("core:ClosureState", type, raw)

StateChanged(d, states) == Event(DEVICE_STATE_CHANGED, d, "", "", states)
RefreshCompleted == Event(REFRESH_ALL_DEVICES_STATES_COMPLETED, "", "", "", <<>>)

\* a gateway delivers the events of one of these families
AvailabilityFeed ==
    {DeviceEvent(DEVICE_AVAILABLE, d) : d \in DeviceIds}
    \cup {DeviceEvent(DEVICE_UNAVAILABLE, d) : d \in DeviceIds}
    \cup {DeviceEvent(DEVICE_DISABLED, "d1"), DeviceEvent(DEVICE_REMOVED, "d2")}

ExecutionFeed ==
    {ExecutionEvent(EXECUTION_REGISTERED, e, "") : e \in ExecIds}
    \cup {ExecutionEvent(EXECUTION_STATE_CHANGED, "E1", COMPLETED),
          ExecutionEvent(EXECUTION_STATE_CHANGED, "E2", FAILED),
          ExecutionEvent(EXECUTION_STATE_CHANGED, "E1", IN_PROGRESS),
          RefreshCompleted}

DeviceFeed ==
    {DeviceEvent(DEVICE_UPDATED, "d1"),
     DeviceEvent(DEVICE_REMOVED, "d1"),
     StateChanged("d1", <<ClosureState(DataType_INTEGER, <<"4", "2">>)>>),
     StateChanged("d1", <<ClosureState(DataType_INTEGER, <<"a">>)>>)}

\* state reports: a state set for the first time, one set again under
\* another type together with a second state, one name twice in a payload
StateFeed ==
    {StateChanged("d1", <<ClosureState(DataType_INTEGER, <<"4", "2">>)>>),
     StateChanged("d1", <<ClosureState(DataType_BOOLEAN, <<"t", "r", "u", "e">>),
                          State("core:NameState", DataType_NONE, <<"x">>)>>),
     StateChanged("d2", <<ClosureState(DataType_FLOAT, <<"1", ".", "5">>),
                          ClosureState(DataType_INTEGER, <<"7">>)>>)}

MixedFeed ==
    {RefreshCompleted,
     DeviceEvent(DEVICE_CREATED, "d2"),
     ExecutionEvent(EXECUTION_REGISTERED, "E1", ""),
     ExecutionEvent(EXECUTION_STATE_CHANGED, "E1", COMPLETED),
     Event(GATEWAY_ALIVE, "", "", "", <<>>)}

Feeds == {AvailabilityFeed, ExecutionFeed, DeviceFeed, StateFeed, MixedFeed}

(***************************************************************************)
(* State                                                                   *)
(***************************************************************************)
VARIABLES
    devices,                  \* self.devices
    data,                     \* self.data, what consumers read
    shared,                   \* self.data is self.devices (the same dict)
    executions,               \* the keys of self.executions
    refresh_in_progress,      \* self.refresh_in_progress
    update_interval,          \* self.update_interval, in seconds
    original_update_interval, \* self.original_update_interval, in seconds
    ready,                    \* the first refresh of async_setup_entry is over
    pc,                       \* where each task is
    size,                     \* len(events) of the batch a task's cycle got
    events,                   \* the events of it the loop has reached
    outcome,                  \* how a task's cycle ended
    calls,                    \* the collaborator calls a task's cycle has made
    pre,                      \* the coordinator state when fetch_events returned or raised
    seen,                     \* what self.data was at the awaits inside the loop
    feed,                     \* the events this gateway delivers
    gateway,                  \* what the gateway has reported so far
    cycles                    \* how many refreshes have been started

coordinator == <<devices, data, shared, executions, refresh_in_progress,
                 update_interval, original_update_interval>>
cycle == <<size, events, outcome, calls, pre, seen>>
host == <<ready, feed, cycles>>
vars == <<coordinator, host, gateway, pc, cycle>>

\* a task at one of these holds the event loop: it is between two awaits
SyncPcs == {"fold", "done"}
Running == {t \in Tasks : pc[t] \in SyncPcs}
\* a task at one of these is inside _async_update_data
CyclePcs == {"fetch_events", "login", "get_devices", "fold", "refetch",
             "registry", "done"}
InCycle == {t \in Tasks : pc[t] \in CyclePcs}

Snapshot == [devices |-> devices, data |-> data, executions |-> executions,
             refresh_in_progress |-> refresh_in_progress]
NoSnapshot == [devices |-> <<>>, data |-> <<>>, executions |-> {},
               refresh_in_progress |-> FALSE]

\* __init__ of the coordinator, called from async_setup_entry
Init ==
    /\ devices \in Snapshots
    /\ data = <<>>
    /\ shared = FALSE
    /\ executions = {}
    /\ refresh_in_progress = FALSE
    /\ update_interval = DEFAULT_UPDATE_INTERVAL
    /\ original_update_interval = DEFAULT_UPDATE_INTERVAL
    /\ ready = FALSE
    /\ pc = [t \in Tasks |-> "idle"]
    /\ events = [t \in Tasks |-> <<>>]
    /\ size = [t \in Tasks |-> 0]
    /\ outcome = [t \in Tasks |-> "none"]
    /\ calls = [t \in Tasks |-> {}]
    /\ pre = [t \in Tasks |-> NoSnapshot]
    /\ seen = [t \in Tasks |-> {}]
    /\ feed \in Feeds
    /\ gateway = [registered |-> {}, refreshing |-> FALSE, inorder |-> TRUE]
    /\ cycles = 0

(***************************************************************************)
(* Helpers                                                                 *)
(***************************************************************************)
\* a mutation of the dict self.devices or of a Device in it: self.data sees
\* it when it is the same dict
MutateDevices(new) ==
    /\ devices' = new
    /\ data' = IF shared THEN new ELSE data
    /\ UNCHANGED shared

\* self.devices = <a new dict>: self.data keeps the dict it had
RebindDevices_Merges(new) ==
    /\ devices' = new @@ devices
    /\ shared' = FALSE
    /\ UNCHANGED data

RebindDevices(new) ==
    /\ devices' = new
    /\ shared' = FALSE
    /\ UNCHANGED data

\* del d[k]
Del(d, k) == [x \in DOMAIN d \ {k} |-> d[x]]

\* the body of "for state in event.device_states" on one device: the device
\* after the loop, and whether _get_state raised on the way
RECURSIVE ApplyStates(_, _)
ApplyStates(device, states) ==
    IF states = <<>> THEN [device |-> device, raised |-> FALSE]
    ELSE LET state == Head(states)
             stored == IF state.name \in DOMAIN device.states
                       THEN device.states
                       ELSE device.states @@
                            (state.name :> [type |-> state.type, value |-> state.value])
         IN IF CastRaises(state)
            THEN [device |-> [device EXCEPT !.states = stored], raised |-> TRUE]
            ELSE ApplyStates(
                   [device EXCEPT
                      !.states = [stored EXCEPT ![state.name].value = GetState(state)]],
                   Tail(states))

\* self.devices[event.deviceurl] and del self.devices[event.deviceurl] raise
\* KeyError
Missing_Available(e) ==
    e.name # DEVICE_AVAILABLE /\ e.deviceurl \notin DOMAIN devices

Missing(e) == e.deviceurl \notin DOMAIN devices

\* self.devices[event.deviceurl].available = True (DEVICE_AVAILABLE) or False
SetAvailable_Toggles(e) ==
    [devices EXCEPT ![e.deviceurl].available =
        IF e.name = DEVICE_AVAILABLE THEN ~@ ELSE FALSE]

SetAvailable(e) ==
    [devices EXCEPT ![e.deviceurl].available = (e.name = DEVICE_AVAILABLE)]

\* set_refresh_in_progress
SetRefreshInProgress_Off(state) == refresh_in_progress' = FALSE

SetRefreshInProgress(state) == refresh_in_progress' = state

\* set_update_interval
SetUpdateInterval_Minutes(seconds) == update_interval' = 60 * seconds

SetUpdateInterval(seconds) == update_interval' = seconds

\* restore_update_interval
RestoreUpdateInterval == update_interval' = original_update_interval

\* the outcomes of a cycle that are a return of self.devices, after the loop
\* and after the recovery; the others are the exception raised
Returns == {"ok", "recovered"}

\* the cycle of task t ends: _async_update_data returns or raises
End(t, how) ==
    /\ pc' = [pc EXCEPT ![t] = "done"]
    /\ outcome' = [outcome EXCEPT ![t] = how]

\* the loop of task t is at the top of an iteration
Folding(t) == pc[t] = "fold" /\ Len(events[t]) < size[t]

\* the loop of task t takes the next event of its batch, e
Reach(t, e) == events' = [events EXCEPT ![t] = Append(@, e)]

\* the iteration of task t is over
Continue(t) ==
    /\ pc' = [pc EXCEPT ![t] = "fold"]
    /\ UNCHANGED outcome

\* task t awaits inside the loop: the consumers that run meanwhile read
\* self.data (there are none before the first refresh is over)
Suspend(t) == seen' = [seen EXCEPT ![t] = IF ready THEN @ \cup {data} ELSE @]

\* the event of the iteration that task t is suspended in
event(t) == events[t][Len(events[t])]

\* the gateway after the events es have been taken from it: the executions
\* it has reported registered and not since COMPLETED or FAILED, and whether
\* a refresh it was asked for is still to be reported completed
RECURSIVE After(_, _)
After(g, es) ==
    IF es = <<>> THEN g
    ELSE LET e == Head(es)
             h == CASE e.name = EXECUTION_REGISTERED ->
                         [g EXCEPT !.registered = @ \cup {e.exec_id}]
                    [] e.name = EXECUTION_STATE_CHANGED
                         /\ e.new_state \in {COMPLETED, FAILED} ->
                         [g EXCEPT !.registered = @ \ {e.exec_id}]
                    [] e.name = REFRESH_ALL_DEVICES_STATES_COMPLETED ->
                         [g EXCEPT !.refreshing = FALSE]
                    [] OTHER -> g
         IN After(h, Tail(es))

\* the events of the batch of task t after the one the loop is at
Ahead(t) == size[t] - Len(events[t]) - 1

\* another task than t is suspended inside its loop with events of its batch
\* still to come: what t takes from the gateway now was reported after them
Overtakes(t) ==
    \E u \in Tasks \ {t} :
        pc[u] \in {"refetch", "registry"} /\ Len(events[u]) < size[u]

\* fetch_events hands a batch over once: the events es go to the loop of
\* task t, and when the cycle raises, the lost events that follow in the
\* batch go with it.  The record follows the gateway's own order as long as
\* no batch has been overtaken
Deliver(t, es, lost) ==
    \E rest \in [1..lost -> feed] :
        gateway' = [After(gateway, es \o rest) EXCEPT
                       !.inorder = @ /\ (es \o rest = <<>> \/ ~Overtakes(t))]

\* handle_refresh_states asks the gateway a refresh
Ask(t) ==
    gateway' = [gateway EXCEPT !.refreshing = TRUE,
                               !.inorder = @ /\ ~Overtakes(t)]

(***************************************************************************)
(* _async_update_data: fetch_events and its failures                       *)
(***************************************************************************)
\* the scheduled poll (and the first refresh of async_setup_entry) calls
\* async_refresh, which awaits _async_update_data: up to "await fetch_events"
Poll(t) ==
    /\ t = "poll"
    /\ Running = {}
    /\ pc[t] = "idle"
    /\ cycles < MaxCycles
    /\ cycles' = cycles + 1
    /\ pc' = [pc EXCEPT ![t] = "fetch_events"]
    /\ calls' = [calls EXCEPT ![t] = {"fetch_events"}]
    /\ UNCHANGED <<coordinator, ready, feed, size, events, outcome, pre, seen>>
    /\ UNCHANGED gateway

\* the lengths of the batch fetch_events returns: past the budget of refreshes
\* the gateway has nothing more to report
BatchSizes == IF cycles > MaxCycles THEN {0} ELSE 0..MaxBatch

\* fetch_events returns a batch.  Nothing reads an event before the loop
\* reaches it, so the batch is drawn as its length here and one event per
\* iteration: the runs are those of drawing the whole batch here
FetchEvents(t) ==
    /\ Running = {}
    /\ pc[t] = "fetch_events"
    /\ \E n \in BatchSizes : size' = [size EXCEPT ![t] = n]
    /\ pre' = [pre EXCEPT ![t] = Snapshot]
    /\ pc' = [pc EXCEPT ![t] = "fold"]
    /\ UNCHANGED <<coordinator, host, events, outcome, calls, seen>>
    /\ UNCHANGED gateway

\* fetch_events raises ServerDisconnectedError or NotAuthenticatedException:
\* up to "await self.client.login()"
FetchEventsNotAuthenticated(t) ==
    /\ Running = {}
    /\ pc[t] = "fetch_events"
    /\ executions' = {}
    /\ SetRefreshInProgress(FALSE)
    /\ pre' = [pre EXCEPT ![t] = Snapshot]
    /\ calls' = [calls EXCEPT ![t] = @ \cup {"login"}]
    /\ pc' = [pc EXCEPT ![t] = "login"]
    /\ UNCHANGED <<devices, data, shared, update_interval,
                   original_update_interval, host, size, events, outcome, seen>>
    /\ UNCHANGED gateway

\* fetch_events raises BadCredentialsException, TooManyRequestsException or
\* an exception of another class: UpdateFailed
FetchEventsRaises_Resets(t) ==
    /\ Running = {}
    /\ pc[t] = "fetch_events"
    /\ \E reason \in {"invalid_auth", "too_many_requests", "exception"} :
          End(t, reason)
    /\ executions' = {}
    /\ SetRefreshInProgress(FALSE)
    /\ pre' = [pre EXCEPT ![t] = Snapshot]
    /\ UNCHANGED <<devices, data, shared, update_interval,
                   original_update_interval, host, size, events, calls, seen>>
    /\ UNCHANGED gateway

FetchEventsRaises(t) ==
    /\ Running = {}
    /\ pc[t] = "fetch_events"
    /\ \E reason \in {"invalid_auth", "too_many_requests", "exception"} :
          End(t, reason)
    /\ pre' = [pre EXCEPT ![t] = Snapshot]
    /\ UNCHANGED <<coordinator, host, size, events, calls, seen>>
    /\ UNCHANGED gateway

\* login returns: up to "await self._get_devices()"
Login(t) ==
    /\ Running = {}
    /\ pc[t] = "login"
    /\ calls' = [calls EXCEPT ![t] = @ \cup {"get_devices"}]
    /\ pc' = [pc EXCEPT ![t] = "get_devices"]
    /\ UNCHANGED <<coordinator, host, size, events, outcome, pre, seen>>
    /\ UNCHANGED gateway

\* login raises: the exception leaves _async_update_data
LoginRaises(t) ==
    /\ Running = {}
    /\ pc[t] = "login"
    /\ End(t, "login_raised")
    /\ UNCHANGED <<coordinator, host, size, events, calls, pre, seen>>
    /\ UNCHANGED gateway

\* _get_devices returns: self.devices is the new dict, which is returned
GetDevices(t) ==
    /\ Running = {}
    /\ pc[t] = "get_devices"
    /\ \E snapshot \in Snapshots : RebindDevices(snapshot)
    /\ End(t, "recovered")
    /\ UNCHANGED <<executions, refresh_in_progress, update_interval,
                   original_update_interval, host, size, events, calls, pre, seen>>
    /\ UNCHANGED gateway

\* _get_devices raises
GetDevicesRaises(t) ==
    /\ Running = {}
    /\ pc[t] = "get_devices"
    /\ End(t, "get_devices_raised")
    /\ UNCHANGED <<coordinator, host, size, events, calls, pre, seen>>
    /\ UNCHANGED gateway

(***************************************************************************)
(* _async_update_data: one iteration of "for event in events"              *)
(***************************************************************************)
\* DEVICE_AVAILABLE, DEVICE_UNAVAILABLE, DEVICE_DISABLED
FoldAvailability(t) ==
    /\ Folding(t)
    /\ \E e \in feed :
          /\ e.name \in {DEVICE_AVAILABLE, DEVICE_UNAVAILABLE, DEVICE_DISABLED}
          /\ Reach(t, e)
          /\ IF ~Missing(e)
             THEN /\ MutateDevices(SetAvailable(e))
                  /\ Continue(t)
                  /\ Deliver(t, <<e>>, 0)
             ELSE /\ End(t, "KeyError")
                  /\ Deliver(t, <<e>>, Ahead(t))
                  /\ UNCHANGED <<devices, data, shared>>
    /\ UNCHANGED <<executions, refresh_in_progress, update_interval,
                   original_update_interval, host, size, calls, pre, seen>>

\* DEVICE_CREATED, DEVICE_UPDATED: up to "await self._get_devices()"
FoldDeviceCreated(t) ==
    /\ Folding(t)
    /\ \E e \in feed :
          /\ e.name \in {DEVICE_CREATED, DEVICE_UPDATED}
          /\ Reach(t, e)
          /\ Deliver(t, <<e>>, 0)
    /\ pc' = [pc EXCEPT ![t] = "refetch"]
    /\ calls' = [calls EXCEPT ![t] = @ \cup {"get_devices"}]
    /\ Suspend(t)
    /\ UNCHANGED <<coordinator, host, size, outcome, pre>>

\* ... _get_devices returns: self.devices is the new dict
Refetch(t) ==
    /\ Running = {}
    /\ pc[t] = "refetch"
    /\ \E snapshot \in Snapshots : RebindDevices(snapshot)
    /\ Continue(t)
    /\ UNCHANGED <<executions, refresh_in_progress, update_interval,
                   original_update_interval, host, size, events, calls, pre, seen>>
    /\ UNCHANGED gateway

\* ... _get_devices raises
RefetchRaises(t) ==
    /\ Running = {}
    /\ pc[t] = "refetch"
    /\ End(t, "get_devices_raised")
    /\ Deliver(t, <<>>, Ahead(t) + 1)
    /\ UNCHANGED <<coordinator, host, size, events, calls, pre, seen>>

\* DEVICE_REMOVED: up to "await device_registry.async_get_registry"
FoldDeviceRemoved(t) ==
    /\ Folding(t)
    /\ \E e \in feed :
          /\ e.name = DEVICE_REMOVED
          /\ Reach(t, e)
          /\ Deliver(t, <<e>>, 0)
    /\ pc' = [pc EXCEPT ![t] = "registry"]
    /\ Suspend(t)
    /\ UNCHANGED <<coordinator, host, size, outcome, calls, pre>>

\* ... the registry is there: async_remove_device, then del self.devices[...]
RemoveDevice(t) ==
    /\ Running = {}
    /\ pc[t] = "registry"
    /\ calls' = [calls EXCEPT ![t] = @ \cup {"async_remove_device"}]
    /\ IF ~Missing(event(t))
       THEN /\ MutateDevices(Del(devices, event(t).deviceurl))
            /\ Continue(t)
            /\ UNCHANGED gateway
       ELSE /\ End(t, "KeyError")
            /\ Deliver(t, <<>>, Ahead(t) + 1)
            /\ UNCHANGED <<devices, data, shared>>
    /\ UNCHANGED <<executions, refresh_in_progress, update_interval,
                   original_update_interval, host, size, events, pre, seen>>

\* DEVICE_STATE_CHANGED
FoldDeviceStateChanged(t) ==
    /\ Folding(t)
    /\ \E e \in feed :
          /\ e.name = DEVICE_STATE_CHANGED
          /\ Reach(t, e)
          /\ IF e.device_states = <<>>
             THEN /\ Continue(t)
                  /\ Deliver(t, <<e>>, 0)
                  /\ UNCHANGED <<devices, data, shared>>
             ELSE IF Missing(e)
             THEN /\ End(t, "KeyError")
                  /\ Deliver(t, <<e>>, Ahead(t))
                  /\ UNCHANGED <<devices, data, shared>>
             ELSE LET r == ApplyStates(devices[e.deviceurl], e.device_states)
                  IN /\ MutateDevices([devices EXCEPT ![e.deviceurl] = r.device])
                     /\ IF r.raised
                        THEN End(t, "ValueError") /\ Deliver(t, <<e>>, Ahead(t))
                        ELSE Continue(t) /\ Deliver(t, <<e>>, 0)
    /\ UNCHANGED <<executions, refresh_in_progress, update_interval,
                   original_update_interval, host, size, calls, pre, seen>>

\* EXECUTION_REGISTERED
FoldExecutionRegistered(t) ==
    /\ Folding(t)
    /\ \E e \in feed :
          /\ e.name = EXECUTION_REGISTERED
          /\ Reach(t, e)
          /\ executions' = executions \cup {e.exec_id}
          /\ Deliver(t, <<e>>, 0)
    /\ SetUpdateInterval(FastInterval)
    /\ Continue(t)
    /\ UNCHANGED <<devices, data, shared, refresh_in_progress,
                   original_update_interval, host, size, calls, pre, seen>>

\* the condition of the EXECUTION_STATE_CHANGED branch
ExecutionEnded_AnyState(e) ==
    /\ e.name = EXECUTION_STATE_CHANGED
    /\ e.exec_id \in executions

ExecutionEnded_CompletedOnly(e) ==
    /\ e.name = EXECUTION_STATE_CHANGED
    /\ e.exec_id \in executions
    /\ e.new_state = COMPLETED

ExecutionEnded(e) ==
    /\ e.name = EXECUTION_STATE_CHANGED
    /\ e.exec_id \in executions
    /\ e.new_state \in {COMPLETED, FAILED}

\* EXECUTION_STATE_CHANGED of a tracked execution to COMPLETED or FAILED
FoldExecutionStateChanged(t) ==
    /\ Folding(t)
    /\ \E e \in feed :
          /\ ExecutionEnded(e)
          /\ Reach(t, e)
          /\ executions' = executions \ {e.exec_id}
          /\ Deliver(t, <<e>>, 0)
    /\ Continue(t)
    /\ UNCHANGED <<devices, data, shared, refresh_in_progress, update_interval,
                   original_update_interval, host, size, calls, pre, seen>>

\* REFRESH_ALL_DEVICES_STATES_COMPLETED
FoldRefreshCompleted(t) ==
    /\ Folding(t)
    /\ \E e \in feed :
          /\ e.name = REFRESH_ALL_DEVICES_STATES_COMPLETED
          /\ Reach(t, e)
          /\ Deliver(t, <<e>>, 0)
    /\ SetRefreshInProgress(FALSE)
    /\ Continue(t)
    /\ UNCHANGED <<devices, data, shared, executions, update_interval,
                   original_update_interval, host, size, calls, pre, seen>>

\* an event no branch of the chain takes
FoldOther(t) ==
    /\ Folding(t)
    /\ \E e \in feed :
          /\ e.name \notin {DEVICE_AVAILABLE, DEVICE_UNAVAILABLE, DEVICE_DISABLED,
                            DEVICE_CREATED, DEVICE_UPDATED, DEVICE_REMOVED,
                            DEVICE_STATE_CHANGED, EXECUTION_REGISTERED,
                            REFRESH_ALL_DEVICES_STATES_COMPLETED}
          /\ ~ExecutionEnded(e)
          /\ Reach(t, e)
          /\ Deliver(t, <<e>>, 0)
    /\ Continue(t)
    /\ UNCHANGED <<coordinator, host, size, calls, pre, seen>>

\* the condition of the restore decision
RestoreCondition_Or == executions = {} \/ refresh_in_progress = FALSE

RestoreCondition == executions = {} /\ refresh_in_progress = FALSE

\* after the loop: the restore decision, and return self.devices
EndOfBatch(t) ==
    /\ pc[t] = "fold"
    /\ Len(events[t]) = size[t]
    /\ IF RestoreCondition
       THEN RestoreUpdateInterval
       ELSE UNCHANGED update_interval
    /\ End(t, "ok")
    /\ UNCHANGED <<devices, data, shared, executions, refresh_in_progress,
                   original_update_interval, host, size, events, calls, pre, seen>>
    /\ UNCHANGED gateway

\* async_refresh after _async_update_data: self.data is what it returned,
\* when it returned
Refreshed(t) ==
    /\ pc[t] = "done"
    /\ IF outcome[t] \in Returns
       THEN data' = devices /\ shared' = TRUE
       ELSE UNCHANGED <<data, shared>>
    /\ ready' = TRUE
    /\ UNCHANGED <<feed, cycles>>
    /\ pc' = [pc EXCEPT ![t] = "idle"]
    /\ events' = [events EXCEPT ![t] = <<>>]
    /\ size' = [size EXCEPT ![t] = 0]
    /\ outcome' = [outcome EXCEPT ![t] = "none"]
    /\ calls' = [calls EXCEPT ![t] = {}]
    /\ pre' = [pre EXCEPT ![t] = NoSnapshot]
    /\ seen' = [seen EXCEPT ![t] = {}]
    /\ UNCHANGED <<devices, executions, refresh_in_progress, update_interval,
                   original_update_interval>>
    /\ UNCHANGED gateway

(***************************************************************************)
(* handle_refresh_states                                                   *)
(***************************************************************************)
\* the service call or the refresh-state timer: up to "await refresh_states"
HandleRefreshStates(t) ==
    /\ t = "manual"
    /\ ready
    /\ Running = {}
    /\ pc[t] = "idle"
    /\ cycles < MaxCycles
    /\ cycles' = cycles + 1
    /\ SetRefreshInProgress(TRUE)
    /\ SetUpdateInterval(FastInterval)
    /\ pc' = [pc EXCEPT ![t] = "refresh_states"]
    /\ UNCHANGED <<devices, data, shared, executions, original_update_interval,
                   ready, feed, cycle>>
    /\ UNCHANGED gateway

\* refresh_states returns: async_refresh, up to "await fetch_events"
RefreshStates(t) ==
    /\ Running = {}
    /\ pc[t] = "refresh_states"
    /\ pc' = [pc EXCEPT ![t] = "fetch_events"]
    /\ calls' = [calls EXCEPT ![t] = {"fetch_events"}]
    /\ Ask(t)
    /\ UNCHANGED <<coordinator, host, size, events, outcome, pre, seen>>

\* refresh_states raises: the handler ends without a cycle (the request
\* counts as made: it may have reached the gateway)
RefreshStatesRaises(t) ==
    /\ Running = {}
    /\ pc[t] = "refresh_states"
    /\ pc' = [pc EXCEPT ![t] = "idle"]
    /\ Ask(t)
    /\ UNCHANGED <<coordinator, host, cycle>>

(***************************************************************************)
(* Specification                                                           *)
(***************************************************************************)
(***************************************************************************)
(* update_listener                                                         *)
(***************************************************************************)
\* the values of CONF_UPDATE_INTERVAL an options update carries that pass
\* "if entry.options[CONF_UPDATE_INTERVAL]"
OptionIntervals == {60}

SetOptions_CurrentOnly(seconds) ==
    /\ update_interval' = seconds
    /\ UNCHANGED original_update_interval

\* the two assignments of update_listener
SetOptions(seconds) ==
    /\ update_interval' = seconds
    /\ original_update_interval' = seconds

\* the options of the entry are updated: the two assignments, then
\* async_refresh up to "await fetch_events".  async_refresh cancels the
\* scheduled refresh and schedules the next one when it is over, so that
\* this refresh takes the turn of the scheduled poll
UpdateListener(t) ==
    /\ t = "poll"
    /\ ready
    /\ Running = {}
    /\ pc[t] = "idle"
    /\ cycles < MaxCycles
    /\ \E seconds \in OptionIntervals : SetOptions(seconds)
    /\ cycles' = cycles + 1
    /\ pc' = [pc EXCEPT ![t] = "fetch_events"]
    /\ calls' = [calls EXCEPT ![t] = {"fetch_events"}]
    /\ UNCHANGED <<devices, data, shared, executions, refresh_in_progress>>
    /\ UNCHANGED <<ready, feed, size, events, outcome, pre, seen>>
    /\ UNCHANGED gateway

\* the step is the options update
Configures == \E t \in Tasks : UpdateListener(t)

Step(t) ==
    \/ Poll(t)
    \/ FetchEvents(t)
    \/ FetchEventsRaises(t)
    \/ FetchEventsNotAuthenticated(t)
    \/ Login(t)
    \/ LoginRaises(t)
    \/ GetDevices(t)
    \/ GetDevicesRaises(t)
    \/ FoldAvailability(t)
    \/ FoldDeviceCreated(t)
    \/ Refetch(t)
    \/ RefetchRaises(t)
    \/ FoldDeviceRemoved(t)
    \/ RemoveDevice(t)
    \/ FoldDeviceStateChanged(t)
    \/ FoldExecutionRegistered(t)
    \/ FoldExecutionStateChanged(t)
    \/ FoldRefreshCompleted(t)
    \/ FoldOther(t)
    \/ EndOfBatch(t)
    \/ Refreshed(t)
    \/ HandleRefreshStates(t)
    \/ RefreshStates(t)
    \/ RefreshStatesRaises(t)
    \/ UpdateListener(t)

Next == \E t \in Tasks : Step(t)

Spec == Init /\ [][Next]_vars

(***************************************************************************)
(* The coordinator polling for ever.  The budget MaxCycles bounds the      *)
(* refreshes during which the gateway reports events and manual refreshes  *)
(* are asked for; after it the scheduled poll goes on with a quiet         *)
(* gateway, whose batches are empty.                                       *)
(***************************************************************************)
\* the scheduled poll past the budget
QuietPoll(t) ==
    /\ t = "poll"
    /\ Running = {}
    /\ pc[t] = "idle"
    /\ cycles >= MaxCycles
    /\ cycles' = MaxCycles + 1
    /\ pc' = [pc EXCEPT ![t] = "fetch_events"]
    /\ calls' = [calls EXCEPT ![t] = {"fetch_events"}]
    /\ UNCHANGED <<coordinator, ready, feed, gateway, size, events, outcome,
                   pre, seen>>

\* a gateway of the mixed family
LiveInit == Init /\ feed = MixedFeed

LiveStep(t) ==
    \/ Poll(t)
    \/ QuietPoll(t)
    \/ FetchEvents(t)
    \/ FetchEventsRaises(t)
    \/ FetchEventsNotAuthenticated(t)
    \/ Login(t)
    \/ LoginRaises(t)
    \/ GetDevices(t)
    \/ GetDevicesRaises(t)
    \/ FoldDeviceCreated(t)
    \/ Refetch(t)
    \/ RefetchRaises(t)
    \/ FoldExecutionRegistered(t)
    \/ FoldExecutionStateChanged(t)
    \/ FoldRefreshCompleted(t)
    \/ FoldOther(t)
    \/ EndOfBatch(t)
    \/ Refreshed(t)
    \/ HandleRefreshStates(t)
    \/ RefreshStates(t)
    \/ RefreshStatesRaises(t)

LiveNext == \E t \in Tasks : LiveStep(t)

\* the event loop runs every task that is ready again and again (a task is
\* not ready while another one holds the loop), the scheduler keeps polling,
\* and fetch_events does not fail for ever
Fairness ==
    \A t \in Tasks : SF_vars(LiveStep(t)) /\ SF_vars(FetchEvents(t))

LiveSpec == LiveInit /\ [][LiveNext]_vars /\ Fairness

(***************************************************************************)
(* Properties                                                              *)
(***************************************************************************)
\* the cycle of task t has folded its batch and returned
Succeeded(t) == pc[t] = "done" /\ outcome[t] = "ok"
\* the cycle of task t has recovered and returned
Recovered(t) == pc[t] = "done" /\ outcome[t] = "recovered"
\* the cycle of task t has raised
Failed(t) == pc[t] = "done" /\ outcome[t] \notin Returns

\* the places of batch b that hold an event for device d
EventsFor(b, d) == {i \in 1..Len(b) : b[i].deviceurl = d}
Latest(S) == CHOOSE i \in S : \A j \in S : j <= i

OnlyAvailability(b) ==
    \A i \in 1..Len(b) : b[i].name \in {DEVICE_AVAILABLE, DEVICE_UNAVAILABLE}

\* C1: after a successful cycle whose batch holds only device-available and
\* device-unavailable events, a device the batch refers to is available
\* exactly when the last event for it is device-available, and every other
\* device is as it was when the batch arrived
C1_LastAvailabilityEventWins ==
    \A t \in Tasks :
        (Succeeded(t) /\ OnlyAvailability(events[t])) =>
            /\ DOMAIN devices = DOMAIN pre[t].devices
            /\ \A d \in DOMAIN devices :
                  IF EventsFor(events[t], d) = {}
                  THEN devices[d] = pre[t].devices[d]
                  ELSE /\ devices[d].available =
                            (events[t][Latest(EventsFor(events[t], d))].name
                                 = DEVICE_AVAILABLE)
                       /\ devices[d].states = pre[t].devices[d].states

\* C1's case: device-available twice for one device, the other device
\* unavailable and not referred to
C1_Witness ==
    \E t \in Tasks :
        /\ Succeeded(t)
        /\ Len(events[t]) = 2
        /\ events[t][1] = DeviceEvent(DEVICE_AVAILABLE, "d1")
        /\ events[t][2] = DeviceEvent(DEVICE_AVAILABLE, "d1")
        /\ DOMAIN devices = DeviceIds
        /\ devices["d1"].available
        /\ ~devices["d2"].available

\* C2: after a successful cycle whose batch is one execution-registered
\* event, its id is in the execution set and the interval is the fast one
C2_RegisteredMeansFast ==
    \A t \in Tasks :
        (/\ Succeeded(t)
         /\ Len(events[t]) = 1
         /\ events[t][1].name = EXECUTION_REGISTERED) =>
            /\ events[t][1].exec_id \in executions
            /\ update_interval = FastInterval

\* C2's case: the execution was not tracked when the batch arrived
C2_Witness ==
    \E t \in Tasks :
        /\ Succeeded(t)
        /\ Len(events[t]) = 1
        /\ events[t][1].name = EXECUTION_REGISTERED
        /\ events[t][1].exec_id \notin pre[t].executions
        /\ ~refresh_in_progress

\* the batch b registers one execution and then ends it
RegisteredThenEnded(b) ==
    /\ Len(b) = 2
    /\ b[1].name = EXECUTION_REGISTERED
    /\ b[2].name = EXECUTION_STATE_CHANGED
    /\ b[2].exec_id = b[1].exec_id
    /\ b[2].new_state \in {COMPLETED, FAILED}

\* C3: when no execution is tracked and no refresh is in progress as the
\* batch arrives, and the batch registers an execution and then ends it, the
\* interval is the fast one after the first event and, once the cycle has
\* succeeded, the execution set is empty and the interval is the default
C3_RegisteredAndEndedRestores ==
    \A t \in Tasks :
        (pre[t].executions = {} /\ ~pre[t].refresh_in_progress) =>
            /\ (/\ pc[t] = "fold"
                /\ size[t] = 2
                /\ Len(events[t]) = 1
                /\ events[t][1].name = EXECUTION_REGISTERED) =>
                    update_interval = FastInterval
            /\ (Succeeded(t) /\ RegisteredThenEnded(events[t])) =>
                    /\ executions = {}
                    /\ update_interval = original_update_interval

\* C3's case: the execution ends FAILED
C3_Witness ==
    \E t \in Tasks :
        /\ Succeeded(t)
        /\ RegisteredThenEnded(events[t])
        /\ events[t][2].new_state = FAILED
        /\ pre[t].executions = {}
        /\ ~pre[t].refresh_in_progress

\* the batch b holds an event of this name
Holds(b, name) == \E i \in 1..Len(b) : b[i].name = name

\* C4: when a successful cycle processes a refresh-all-devices-states-completed
\* event, no execution being tracked as its batch arrives, none registered by
\* the batch and none tracked at the end, then at the end of the cycle no
\* refresh is in progress and the interval is the default
C4_RefreshCompletedRestores ==
    \A t \in Tasks :
        (/\ Succeeded(t)
         /\ Holds(events[t], REFRESH_ALL_DEVICES_STATES_COMPLETED)
         /\ ~Holds(events[t], EXECUTION_REGISTERED)
         /\ pre[t].executions = {}
         /\ executions = {}) =>
            /\ ~refresh_in_progress
            /\ update_interval = original_update_interval

\* a step that ends the loop of task t: the restore decision and the return
EndsBatch(t) == pc[t] = "fold" /\ pc'[t] = "done" /\ outcome'[t] = "ok"
\* a step of task t that is one iteration of its loop, or the part of one
\* before or after its await
Iterates(t) ==
    /\ pc[t] \in {"fold", "refetch", "registry"}
    /\ pc'[t] \in {"fold", "refetch", "registry"}
    /\ <<pc[t], events[t]>> # <<pc'[t], events'[t]>>

\* C5: the step that ends a batch sets the interval to the default when no
\* execution is tracked and no refresh is in progress, and leaves it as the
\* loop left it otherwise; no iteration of the loop restores the default
C5_RestoreOncePerBatch ==
    [][\A t \in Tasks :
          /\ EndsBatch(t) =>
                IF executions = {} /\ ~refresh_in_progress
                THEN update_interval' = original_update_interval
                ELSE update_interval' = update_interval
          /\ Iterates(t) =>
                update_interval' \in {update_interval, FastInterval}]_vars

\* C5's case: the batch ends the last execution while a refresh is in
\* progress, and the interval stays the fast one
C5_Witness ==
    \E t \in Tasks :
        /\ Succeeded(t)
        /\ Holds(events[t], EXECUTION_STATE_CHANGED)
        /\ pre[t].executions # {}
        /\ executions = {}
        /\ refresh_in_progress
        /\ update_interval = FastInterval
        /\ update_interval # original_update_interval

\* the reasons of the UpdateFailed that a failure of fetch_events is raised as
FetchFailures == {"invalid_auth", "too_many_requests", "exception"}

\* C6: the steps of a cycle whose fetch_events fails with bad credentials,
\* rate limiting or another error, the call and the report of the failure,
\* change neither the cache, the execution set, the refresh flag nor the
\* interval, and the cycle has called nothing but fetch_events (the interval
\* an options update writes is written before its refresh starts the cycle)
C6_FatalFetchChangesNothing ==
    [][\A t \in Tasks :
          /\ (pc[t] # "fetch_events" /\ pc'[t] = "fetch_events") =>
                /\ UNCHANGED <<devices, data, executions, refresh_in_progress>>
                /\ UNCHANGED <<update_interval, original_update_interval>>
                       \/ UpdateListener(t)
          /\ (pc[t] = "fetch_events" /\ pc'[t] = "done"
                /\ outcome'[t] \in FetchFailures) =>
                /\ UNCHANGED <<devices, data, executions, refresh_in_progress,
                               update_interval, original_update_interval>>
                /\ calls'[t] = {"fetch_events"}]_vars

\* C6's case: the failure is reported while an execution is tracked, a
\* refresh is in progress and the interval is the fast one
C6_Witness ==
    \E t \in Tasks :
        /\ Failed(t)
        /\ outcome[t] = "invalid_auth"
        /\ executions # {}
        /\ refresh_in_progress
        /\ update_interval = FastInterval

\* C7: a cycle that recovers (fetch_events fails with not-authenticated or
\* server-disconnected, login and the refetch succeed) ends with no execution
\* tracked, no refresh in progress, the cache a fresh snapshot and no event
\* folded
C7_RecoveryResets ==
    \A t \in Tasks :
        Recovered(t) =>
            /\ executions = {}
            /\ ~refresh_in_progress
            /\ devices \in Snapshots
            /\ events[t] = <<>>

\* C8: after a cycle that raised, the cache is what it was before the cycle
C8_FailedCycleKeepsCache ==
    \A t \in Tasks : Failed(t) => devices = pre[t].devices

\* what consumers read once the refresh of task t, now at its end, is over:
\* the dict the cycle returned, or on a failure the dict they read before
Committed(t) == IF outcome[t] \in Returns THEN devices ELSE data

\* C9: what consumers could read at the awaits inside a cycle's loop is what
\* they read before the cycle or what they read once it is over, never the
\* cache with only a prefix of the batch applied
C9_SnapshotNeverPartial ==
    \A t \in Tasks :
        pc[t] = "done" =>
            \A snapshot \in seen[t] :
                snapshot = pre[t].data \/ snapshot = Committed(t)

\* C10: at most one task is inside _async_update_data
C10_OneCycleAtATime == Cardinality(InCycle) <= 1

\* C11: every execution the coordinator tracks is one the gateway has
\* reported registered and has not since reported COMPLETED or FAILED (in
\* the runs in which no batch has been overtaken by a later one)
C11_TrackedAreRunning ==
    gateway.inorder => executions \subseteq gateway.registered

\* task t takes the next event of its batch in this step
Reaches(t) == Len(events'[t]) = Len(events[t]) + 1
\* the event it takes
reached(t) == events'[t][Len(events'[t])]
\* the names of the states in a payload, and the last entry for a name
NamesIn(states) == {states[i].name : i \in 1..Len(states)}
LastFor(states, name) ==
    states[Latest({i \in 1..Len(states) : states[i].name = name})]

\* C12: a step that processes a device-state-changed event for a cached
\* device without raising leaves, for every name in the payload, that state's
\* value at the raw value of the last entry for the name cast to that entry's
\* declared type (integer "42" is 42, boolean "true" is true, the raw value
\* itself for the type none), creates the states that were absent, and
\* changes no other state of the device, not its availability and no other
\* device
C12_StateChangedCasts ==
    [][\A t \in Tasks :
          (/\ Reaches(t)
           /\ reached(t).name = DEVICE_STATE_CHANGED
           /\ reached(t).deviceurl \in DOMAIN devices
           /\ pc'[t] = "fold") =>
             LET e == reached(t)
                 old == devices[e.deviceurl]
                 new == devices'[e.deviceurl]
             IN /\ DOMAIN devices' = DOMAIN devices
                /\ \A d \in DOMAIN devices \ {e.deviceurl} : devices'[d] = devices[d]
                /\ new.available = old.available
                /\ DOMAIN new.states = DOMAIN old.states \cup NamesIn(e.device_states)
                /\ \A name \in DOMAIN old.states \ NamesIn(e.device_states) :
                      new.states[name] = old.states[name]
                /\ \A name \in NamesIn(e.device_states) :
                      LET entry == LastFor(e.device_states, name)
                      IN /\ new.states[name].value = GetState(entry)
                         /\ entry.type = DataType_NONE =>
                               new.states[name].value = entry.value
                         /\ (entry.type = DataType_INTEGER
                               /\ entry.value = PyStr(<<"4", "2">>)) =>
                               new.states[name].value = PyInt(42)
                         /\ (entry.type = DataType_BOOLEAN
                               /\ entry.value = PyStr(<<"t", "r", "u", "e">>)) =>
                               new.states[name].value = PyBool(TRUE)]_vars

\* C12's case: the closure state of d1, first stored as an integer, has been
\* set again by a boolean entry, whose payload also created the name state
C12_Witness ==
    /\ "d1" \in DOMAIN devices
    /\ DOMAIN devices["d1"].states = {"core:ClosureState", "core:NameState"}
    /\ devices["d1"].states["core:ClosureState"] =
          [type |-> DataType_INTEGER, value |-> PyBool(TRUE)]
    /\ devices["d1"].states["core:NameState"].value = PyStr(<<"x">>)

\* task t takes the recovery path in this step
Recovers(t) == pc[t] = "fetch_events" /\ pc'[t] = "login"

\* C13: a manual refresh sets the refresh flag and the fast interval, then
\* asks the gateway to refresh states, then runs one cycle, which it enters
\* from nowhere else; the flag, once set, is cleared only by a step that
\* processes a refresh-all-devices-states-completed event or takes the
\* recovery path, and while it is set no step of a cycle or of a manual
\* refresh restores the default interval
C13_ManualRefreshOrder ==
    [][/\ (pc["manual"] = "idle" /\ pc'["manual"] # "idle") =>
             /\ pc'["manual"] = "refresh_states"
             /\ refresh_in_progress'
             /\ update_interval' = FastInterval
             /\ gateway'.refreshing = gateway.refreshing
       /\ (pc["manual"] = "refresh_states" /\ pc'["manual"] # "refresh_states") =>
             /\ pc'["manual"] \in {"fetch_events", "idle"}
             /\ gateway'.refreshing
       /\ (pc["manual"] # "fetch_events" /\ pc'["manual"] = "fetch_events") =>
             pc["manual"] = "refresh_states"
       /\ (refresh_in_progress /\ ~refresh_in_progress') =>
             \E t \in Tasks :
                \/ Reaches(t)
                     /\ reached(t).name = REFRESH_ALL_DEVICES_STATES_COMPLETED
                \/ Recovers(t)
       /\ (refresh_in_progress /\ ~Configures) =>
             update_interval' \in {update_interval, FastInterval}]_vars

\* C13's case: the cycle of a manual refresh has folded a batch without a
\* refresh-all-devices-states-completed event and returned, no execution is
\* tracked, and the flag and the fast interval are still in place
C13_Witness ==
    /\ Succeeded("manual")
    /\ events["manual"] # <<>>
    /\ ~Holds(events["manual"], REFRESH_ALL_DEVICES_STATES_COMPLETED)
    /\ pc["poll"] = "idle"
    /\ executions = {}
    /\ refresh_in_progress
    /\ update_interval = FastInterval

\* task t comes back from an await of _get_devices with the devices fetched
Refetches(t) == pc[t] \in {"refetch", "get_devices"} /\ pc'[t] \in {"fold", "done"}
\* task t comes back from the await of the registry
Removes(t) == pc[t] = "registry" /\ pc'[t] # "registry"
\* the cycle of task t raises KeyError in this step and leaves the cache alone
RaisesKeyError(t) ==
    /\ pc'[t] = "done"
    /\ outcome'[t] = "KeyError"
    /\ UNCHANGED devices

C15_RemovedRemovesOne ==
    [][\A t \in Tasks :
          Removes(t) =>
             /\ "async_remove_device" \in calls'[t]
             /\ event(t).deviceurl \in DOMAIN devices
             /\ devices' = Del(devices, event(t).deviceurl)
             /\ UNCHANGED <<executions, refresh_in_progress, update_interval,
                            original_update_interval>>]_vars

\* C16: the steps of a device-created or device-updated event, the call of
\* _get_devices and its return, write nothing but the cache, and when the
\* call returns the cache is the snapshot it returned, whatever the cache
\* held; the loop then goes on to the next event
C16_CreatedReplacesCache ==
    [][\A t \in Tasks :
          /\ (Reaches(t) /\ reached(t).name \in {DEVICE_CREATED, DEVICE_UPDATED}) =>
                /\ pc'[t] = "refetch"
                /\ "get_devices" \in calls'[t]
                /\ UNCHANGED <<devices, executions, refresh_in_progress,
                               update_interval, original_update_interval>>
          /\ (pc[t] = "refetch" /\ pc'[t] = "fold") =>
                /\ devices' \in Snapshots
                /\ UNCHANGED <<events, executions, refresh_in_progress,
                               update_interval, original_update_interval>>]_vars

\* C16's case: d1 was given a state, then a device-updated event replaced the
\* cache by a snapshot in which d1 has none and from which d2 is gone
C16_Witness ==
    \E t \in Tasks :
        /\ Succeeded(t)
        /\ Len(events[t]) = 2
        /\ events[t][1].name = DEVICE_STATE_CHANGED
        /\ events[t][1].deviceurl = "d1"
        /\ events[t][2].name = DEVICE_UPDATED
        /\ "d2" \in DOMAIN pre[t].devices
        /\ devices = [d \in {"d1"} |-> Device(TRUE)]

\* C16, later events: a state-changed event after the device-updated event is
\* folded on top of the snapshot
C16_LaterEventsOnTop ==
    \E t \in Tasks :
        /\ Succeeded(t)
        /\ Len(events[t]) = 2
        /\ events[t][1].name = DEVICE_UPDATED
        /\ events[t][2].name = DEVICE_STATE_CHANGED
        /\ events[t][2].deviceurl = "d1"
        /\ "core:ClosureState" \in DOMAIN devices["d1"].states

\* the kinds of event the loop has a branch for
Handled ==
    {DEVICE_AVAILABLE, DEVICE_UNAVAILABLE, DEVICE_DISABLED, DEVICE_CREATED,
     DEVICE_UPDATED, DEVICE_REMOVED, DEVICE_STATE_CHANGED, EXECUTION_REGISTERED,
     EXECUTION_STATE_CHANGED, REFRESH_ALL_DEVICES_STATES_COMPLETED}

\* C17: a step that processes an event of a kind outside the handled set, an
\* execution-state-changed event whose new state is neither COMPLETED nor
\* FAILED, or one whose id is not tracked, leaves the cache, the execution
\* set and the refresh flag unchanged; a step that processes an
\* execution-registered event for a tracked id leaves the execution set
\* unchanged and sets the fast interval
C17_IgnoredEventsChangeNothing ==
    [][\A t \in Tasks :
          Reaches(t) =>
             LET e == reached(t) IN
             /\ (\/ e.name \notin Handled
                 \/ e.name = EXECUTION_STATE_CHANGED
                      /\ e.new_state \notin {COMPLETED, FAILED}
                 \/ e.name = EXECUTION_STATE_CHANGED
                      /\ e.exec_id \notin executions) =>
                   /\ UNCHANGED <<devices, executions, refresh_in_progress>>
                   /\ pc'[t] = "fold"
             /\ (e.name = EXECUTION_REGISTERED /\ e.exec_id \in executions) =>
                   /\ UNCHANGED <<devices, executions, refresh_in_progress>>
                   /\ update_interval' = FastInterval]_vars

\* C17's case: a batch reports a tracked execution IN_PROGRESS and then
\* registers it again, and it is still tracked
C17_Witness ==
    \E t \in Tasks :
        /\ Succeeded(t)
        /\ Len(events[t]) = 2
        /\ events[t][1].name = EXECUTION_STATE_CHANGED
        /\ events[t][1].new_state = IN_PROGRESS
        /\ events[t][1].exec_id \in pre[t].executions
        /\ events[t][2].name = EXECUTION_REGISTERED
        /\ events[t][2].exec_id = events[t][1].exec_id
        /\ executions = pre[t].executions
        /\ update_interval = FastInterval

\* C17, the other kinds: a gateway-alive event and a COMPLETED report for an
\* execution that is not tracked
C17_OtherKinds ==
    \E t \in Tasks :
        /\ Succeeded(t)
        /\ Len(events[t]) = 2
        /\ events[t][1].name = GATEWAY_ALIVE
        /\ events[t][2].name = EXECUTION_STATE_CHANGED
        /\ events[t][2].new_state = COMPLETED
        /\ events[t][2].exec_id \notin pre[t].executions

\* C18: whenever no cycle is in progress, if no execution is tracked and no
\* refresh is in progress then the interval is the default one
C18_ModeFollowsConditions ==
    (InCycle = {} /\ executions = {} /\ ~refresh_in_progress) =>
        update_interval = original_update_interval

\* the gateway has reported the end of every execution it registered and the
\* completion of every refresh it was asked for
Settled == gateway.inorder /\ gateway.registered = {} /\ ~gateway.refreshing
\* normal mode
Normal ==
    /\ executions = {}
    /\ ~refresh_in_progress
    /\ update_interval = original_update_interval

\* C19: when cycles keep being run and from some point on the gateway has
\* reported the end of every execution and the completion of every refresh
\* and starts no more, then from some point on no execution is tracked, no
\* refresh is in progress and the interval is the default
C19_FastPollingEnds == <>[]Settled => <>[]Normal

(***************************************************************************)
(* C20                                                                     *)
(***************************************************************************)
\* C20: the interval is always the fast one or the default one; a step that
\* is not the options update leaves the default interval alone and writes
\* to the interval nothing but the fast or the default one, and the options
\* update sets the interval and the default one to the same new value
C20_IntervalIsFastOrDefault ==
    /\ [](update_interval \in {FastInterval, original_update_interval})
    /\ [][IF Configures
           THEN /\ update_interval' = original_update_interval'
                /\ original_update_interval' \in OptionIntervals
           ELSE /\ UNCHANGED original_update_interval
                /\ update_interval' \in {update_interval, FastInterval,
                                          original_update_interval}]_vars

\* C20's case: the options have been updated and a later cycle, tracking an
\* execution, has set the fast interval, the new default being kept
C20_Witness ==
    /\ original_update_interval \in OptionIntervals
    /\ original_update_interval # DEFAULT_UPDATE_INTERVAL
    /\ update_interval = FastInterval
    /\ executions # {}
    /\ \E t \in Tasks : Succeeded(t)

====
